---- MODULE Spec2Model ----
(***************************************************************************)
(* Block execution core: BlockExecutor over a speculative block tree and   *)
(* an append-only ledger store.                                            *)
(*                                                                         *)
(* execute_block / commit_blocks / reset / committed_block_id are          *)
(* translated from execution/executor/src/block_executor.rs.  The block    *)
(* tree, the chunk output stage and the storage writer are collaborators   *)
(* whose contracts are taken from the design document (sections 4.1-4.3).  *)
(*                                                                         *)
(* Abstractions: a transaction is identified with its content hash; the    *)
(* transaction accumulator is the sequence of its leaves (so its root hash *)
(* is injective in the leaves and num_leaves is the length); a ledger view *)
(* is represented by its accumulator.  Calls on the executor are           *)
(* serialized by the caller: each handler is one atomic step, written as a *)
(* function from the state and the call's inputs to the new state and the  *)
(* returned result.  A call that fails or is a retry leaves the state as   *)
(* it was; what it returns is the result field of that function.           *)
(***************************************************************************)
EXTENDS Integers, Sequences, FiniteSets, TLC

\* ------------------------------------------------------------------ bounds
NumBlocks == 2
MaxGenerated == 8
MaxTxns == 2
MaxVersion == 2

\* HashValue::zero()
ZeroHash == 0

BlockIds == 1..NumBlocks
AllIds == 0..NumBlocks

\* "a": an ordinary transaction, which the VM keeps.
\* "r": a transaction that emits a reconfiguration event.
PlainTxn == {"a"}
ReconfigTxn == {"r"}
Txn == PlainTxn \cup ReconfigTxn

\* What else a genesis transaction (an arbitrary write set) can be:
\* "d": a transaction the VM discards;
\* "s": one that emits a reconfiguration event and moves the on-chain epoch by 2;
\* "e": one that moves the on-chain epoch by 1 and emits no reconfiguration event.
DiscardTxn == {"d"}
SkipEpochTxn == {"s"}
BumpOnlyTxn == {"e"}
GenesisTxns == Txn \cup DiscardTxn \cup SkipEpochTxn \cup BumpOnlyTxn

SeqUpTo(S, n) == UNION {[1..k -> S] : k \in 0..n}
TxnLists == SeqUpTo(Txn, MaxTxns)
IdLists == SeqUpTo(AllIds, NumBlocks)

VARIABLES
    blocks,     \* BlockTree: block id -> Block, for the ids present
    root,       \* BlockTree: id of the root (last committed) block
    log,        \* storage: the persisted transaction log
    latest_li,  \* storage: the latest persisted ledger info
    aborted,    \* the process has panicked
    node,       \* aptos-node: where setup_environment stands, its configuration
                \* and the components it has started
    pipe,       \* db_generator: the threads of run and the two channels
    call        \* an execute_block call in progress on another thread

vars == <<blocks, root, log, latest_li, aborted, node, pipe, call>>

\* ------------------------------------------------------------ data model
EmitsReconfig(t) == t \in ReconfigTxn \cup SkipEpochTxn

NextEpochOf(t) == IF EmitsReconfig(t) THEN 1 ELSE 0

\* ExecutedChunk: status per input txn, transactions to commit, the result
\* view (its accumulator), next_epoch_state (0 = None).
EmptyChunk(acc) ==
    [status |-> <<>>, to_commit |-> <<>>, acc |-> acc, nes |-> 0]

has_reconfiguration(output) == output.nes # 0

reconfig_suffix(output) ==
    [status |-> <<>>, to_commit |-> <<>>, acc |-> output.acc, nes |-> output.nes]

NoLedgerInfo == [present |-> FALSE, version |-> 0, consensus_block_id |-> ZeroHash]
LedgerInfo(v, b) == [present |-> TRUE, version |-> v, consensus_block_id |-> b]

\* StateComputeResult: root hash, version range, per-txn status, next epoch state.
as_state_compute_result(output, parent_accumulator) ==
    [root_hash |-> output.acc,
     first_version |-> Len(parent_accumulator),
     num_leaves |-> Len(output.acc),
     status |-> output.status,
     nes |-> output.nes]

NoSCR == [root_hash |-> <<>>, first_version |-> 0, num_leaves |-> 0,
          status |-> <<>>, nes |-> 0]

\* Results returned to the caller.
Ok(scr) == [kind |-> "Ok", id |-> 0, first_version |-> 0, to_commit |-> 0,
            target_version |-> 0, scr |-> scr]
Err(kind) == [kind |-> kind, id |-> 0, first_version |-> 0, to_commit |-> 0,
              target_version |-> 0, scr |-> NoSCR]
BlockNotFound(id) == [Err("BlockNotFound") EXCEPT !.id = id]
BadNumTxnsToCommit(fv, n, tv) ==
    [Err("BadNumTxnsToCommit") EXCEPT !.first_version = fv, !.to_commit = n,
                                      !.target_version = tv]

\* ------------------------------------------------------------ chunk output
\* Index of the first transaction that emits a reconfiguration event, or 0.
FirstReconfig(txns) ==
    LET idx == {i \in 1..Len(txns) : EmitsReconfig(txns[i])}
    IN IF idx = {} THEN 0 ELSE CHOOSE i \in idx : \A j \in idx : i <= j

\* A variant that never marks a transaction Retry.
TxnStatus_NoRetry(txns, i) == IF txns[i] \in DiscardTxn THEN "Discard" ELSE "Keep"

TxnStatus(txns, i) ==
    LET f == FirstReconfig(txns)
    IN IF f # 0 /\ i > f THEN "Retry"
       ELSE IF txns[i] \in DiscardTxn THEN "Discard" ELSE "Keep"

RECURSIVE KeptFrom(_, _)
KeptFrom(txns, i) ==
    IF i > Len(txns) THEN <<>>
    ELSE (IF TxnStatus(txns, i) = "Keep" THEN <<txns[i]>> ELSE <<>>)
         \o KeptFrom(txns, i + 1)

\* ChunkOutput::by_transaction_execution: per-txn status, what is kept, and the
\* next epoch state of the first reconfiguration.
by_transaction_execution(txns) ==
    LET f == FirstReconfig(txns)
    IN [status |-> [i \in 1..Len(txns) |-> TxnStatus(txns, i)],
        to_commit |-> KeptFrom(txns, 1),
        nes |-> IF f = 0 THEN 0 ELSE NextEpochOf(txns[f])]

\* A variant that puts the new leaves in front.
apply_to_ledger_InFront(chunk_output, parent_view) ==
    [status |-> chunk_output.status,
     to_commit |-> chunk_output.to_commit,
     acc |-> chunk_output.to_commit \o parent_view,
     nes |-> chunk_output.nes]

\* ChunkOutput::apply_to_ledger: extend the parent's accumulator with the hashes
\* of the transactions to commit.
apply_to_ledger(chunk_output, parent_view) ==
    [status |-> chunk_output.status,
     to_commit |-> chunk_output.to_commit,
     acc |-> parent_view \o chunk_output.to_commit,
     nes |-> chunk_output.nes]

\* -------------------------------------------------------------- block tree
Block(parent_id, output, n) ==
    [parent_id |-> parent_id, output |-> output, num_persisted |-> n]

\* BlockTree::new / reset: a single root for the persisted tip.
RootIdFromStorage(lli) == IF lli.present THEN lli.consensus_block_id ELSE ZeroHash

TreeFromStorage(lg, lli) ==
    (RootIdFromStorage(lli) :> Block(RootIdFromStorage(lli), EmptyChunk(lg), Len(lg)))

root_block(bs, rt) == bs[rt]

\* BlockTree::get_blocks_opt: TRUE per id that is present, in order.
get_blocks_opt(bs, ids) == [i \in 1..Len(ids) |-> ids[i] \in DOMAIN bs]

\* BlockTree::get_blocks: 0 when every id is present, else the position of the
\* first one that is missing.
FirstMissing(bs, ids) ==
    LET miss == {i \in 1..Len(ids) : ids[i] \notin DOMAIN bs}
    IN IF miss = {} THEN 0 ELSE CHOOSE i \in miss : \A j \in miss : i <= j

\* BlockTree::add_block: the existing node when block_id is present, else insert.
add_block(bs, parent_id, block_id, output) ==
    IF block_id \in DOMAIN bs THEN bs
    ELSE [i \in DOMAIN bs \cup {block_id} |->
            IF i = block_id THEN Block(parent_id, output, Len(output.acc)) ELSE bs[i]]

\* BlockTree::prune: the target becomes the root, every other node is removed,
\* and the root's num_persisted_transactions is version + 1.
prune(bs, li) ==
    (li.consensus_block_id :>
        [bs[li.consensus_block_id] EXCEPT !.num_persisted = li.version + 1])

\* ---------------------------------------------------------------- storage
\* A variant that appends at any first_version.
SaveAccepts_Always(lg, first_version) == TRUE

\* DbWriter::save_transactions precondition.
SaveAccepts(lg, first_version) == first_version = Len(lg)

\* --------------------------------------------------------- block executor
\* BlockExecutor::committed_block_id
committed_block_id == root

\* The faults the environment can raise inside a call: the fail point
\* executor::vm_execute_block, a VM error, an apply_to_ledger error; the fail
\* point executor::commit_blocks, a save_transactions error.
ExecFaults == {"none", "inject", "vm", "apply"}
CommitFaults == {"none", "inject", "storage"}

\* execute_block: parent resolution.
ParentMissing(block_vec) == ~block_vec[2]

\* A variant that answers from the tree when the block is there although its
\* parent is not.
ParentNotFound_CachedFirst(block_id, parent_block_id) ==
    IF block_id \in DOMAIN blocks
    THEN Ok(as_state_compute_result(blocks[block_id].output, <<>>))
    ELSE BlockNotFound(parent_block_id)

\* A variant that names the block instead of its parent.
ParentNotFound_NamesBlock(block_id, parent_block_id) == BlockNotFound(block_id)

\* execute_block: the error for a missing parent.
ParentNotFound(block_id, parent_block_id) == BlockNotFound(parent_block_id)

\* A variant that never recognises a retry.
IsRetryExecute_Never(block_vec) == FALSE

\* execute_block: the block is already in the tree ("this is a retry").
IsRetryExecute(block_vec) == block_vec[1]

\* A variant that takes the shortcut under every reconfiguration block.
UseReconfigSuffix_AnyParent(parent_block_id, committed_id, parent_output) ==
    has_reconfiguration(parent_output)

\* A variant that takes the shortcut under the committed block only.
UseReconfigSuffix_UnderRoot(parent_block_id, committed_id, parent_output) ==
    parent_block_id = committed_id /\ has_reconfiguration(parent_output)

\* execute_block: a descendant of a reconfiguration block that is not the
\* committed block gets the reconfig suffix instead of being executed.
UseReconfigSuffix(parent_block_id, committed_id, parent_output) ==
    parent_block_id # committed_id /\ has_reconfiguration(parent_output)

\* A variant that leaves a placeholder for the block behind on an error.
FailExecute_Attaching(bs, parent_block_id, block_id, error, vm) ==
    [blocks |-> IF parent_block_id \in DOMAIN bs
                THEN add_block(bs, parent_block_id, block_id, EmptyChunk(<<>>))
                ELSE bs,
     result |-> error, retry |-> FALSE, vm |-> vm]

\* A variant that answers a failure with the result of an empty block.
FailExecute_AnswersEmpty(bs, parent_block_id, block_id, error, vm) ==
    [blocks |-> bs,
     result |-> Ok(as_state_compute_result(EmptyChunk(<<>>), <<>>)),
     retry |-> FALSE, vm |-> vm]

\* execute_block: an error return (the ? operators) leaves the tree alone.
\* vm: whether the VM had been invoked.
FailExecute(bs, parent_block_id, block_id, error, vm) ==
    [blocks |-> bs, result |-> error, retry |-> FALSE, vm |-> vm]

\* A variant that records a parent that is not the one given.
Attach_WrongParent(bs, parent_block_id, block_id, output, parent_accumulator, vm) ==
    [blocks |-> add_block(bs, NumBlocks + 1, block_id, output),
     result |-> Ok(as_state_compute_result(
                     add_block(bs, NumBlocks + 1, block_id, output)[block_id].output,
                     parent_accumulator)),
     retry |-> FALSE, vm |-> vm]

\* execute_block: attach the output and return the block's compute result.
Attach(bs, parent_block_id, block_id, output, parent_accumulator, vm) ==
    IF parent_block_id \notin DOMAIN bs
    THEN FailExecute(bs, parent_block_id, block_id, BlockNotFound(parent_block_id), vm)
    ELSE [blocks |-> add_block(bs, parent_block_id, block_id, output),
          result |-> Ok(as_state_compute_result(
                          add_block(bs, parent_block_id, block_id, output)[block_id].output,
                          parent_accumulator)),
          retry |-> FALSE, vm |-> vm]

\* What one execute_block call does to the tree and what it returns.
execute_block(bs, rt, block_id, transactions, parent_block_id, fault) ==
    LET committed_id == rt
        block_vec == get_blocks_opt(bs, <<block_id, parent_block_id>>)
    IN
    IF ParentMissing(block_vec)
    THEN FailExecute(bs, parent_block_id, block_id,
                     ParentNotFound(block_id, parent_block_id), FALSE)
    ELSE
    LET parent_output == bs[parent_block_id].output
        parent_view == parent_output.acc
        parent_accumulator == parent_view
    IN
    IF IsRetryExecute(block_vec)
    THEN [blocks |-> bs,
          result |-> Ok(as_state_compute_result(bs[block_id].output, parent_accumulator)),
          retry |-> TRUE, vm |-> FALSE]
    ELSE IF UseReconfigSuffix(parent_block_id, committed_id, parent_output)
    THEN Attach(bs, parent_block_id, block_id, reconfig_suffix(parent_output),
                parent_accumulator, FALSE)
    ELSE IF fault = "inject"
    THEN FailExecute(bs, parent_block_id, block_id, Err("Injected"), FALSE)
    ELSE IF fault = "vm"
    THEN FailExecute(bs, parent_block_id, block_id, Err("VMError"), TRUE)
    ELSE IF fault = "apply"
    THEN FailExecute(bs, parent_block_id, block_id, Err("ApplyError"), TRUE)
    ELSE Attach(bs, parent_block_id, block_id,
                apply_to_ledger(by_transaction_execution(transactions), parent_view),
                parent_accumulator, TRUE)

\* A variant of the retry test that compares block ids.
IsRetryCommit_ByBlockId(num_persisted, li) == li.consensus_block_id = root

\* Variants of the retry test: one version early, and any version behind the root.
IsRetryCommit_OneEarly(num_persisted, li) == num_persisted = li.version

IsRetryCommit_AtOrBehind(num_persisted, li) == num_persisted >= li.version + 1

\* commit_blocks: the root already stands at the ledger info's version ("a retry").
IsRetryCommit(num_persisted, li) == num_persisted = li.version + 1

\* commit_blocks: the transactions to commit of the listed blocks, in order.
RECURSIVE Flatten(_, _, _)
Flatten(bs, ids, i) ==
    IF i > Len(ids) THEN <<>>
    ELSE bs[ids[i]].output.to_commit \o Flatten(bs, ids, i + 1)

\* A variant that concatenates in the opposite order.
TxnsToCommit_Reversed(bs, block_ids) ==
    Flatten(bs, [i \in 1..Len(block_ids) |-> block_ids[Len(block_ids) + 1 - i]], 1)

\* commit_blocks: txns_to_commit, collected from the listed blocks in order.
TxnsToCommit(bs, block_ids) == Flatten(bs, block_ids, 1)

\* Variants of the version check: off by one, and rejecting only an overshoot.
BadNum_OffByOne(first_version, to_commit, target_version) ==
    first_version + to_commit # target_version

BadNum_OvershootOnly(first_version, to_commit, target_version) ==
    first_version + to_commit > target_version + 1

\* A variant without the version check.
BadNum_Never(first_version, to_commit, target_version) == FALSE

\* commit_blocks: the version check.
BadNum(first_version, to_commit, target_version) ==
    first_version + to_commit # target_version + 1

\* A variant that rebuilds the tree from storage on the way out.
FailCommit_ResetsTree(bs, rt, lg, lli, res, isretry) ==
    [blocks |-> TreeFromStorage(lg, lli), root |-> RootIdFromStorage(lli),
     log |-> lg, latest_li |-> lli,
     result |-> res, retry |-> isretry, saved |-> FALSE, aborted |-> FALSE]

\* commit_blocks: a return before the persist changes nothing.
FailCommit(bs, rt, lg, lli, res, isretry) ==
    [blocks |-> bs, root |-> rt, log |-> lg, latest_li |-> lli,
     result |-> res, retry |-> isretry, saved |-> FALSE, aborted |-> FALSE]

\* A variant that prunes although the save failed.
SaveFailed_Pruned(bs, rt, lg, lli, li) ==
    [blocks |-> IF li.consensus_block_id \in DOMAIN bs THEN prune(bs, li) ELSE bs,
     root |-> IF li.consensus_block_id \in DOMAIN bs THEN li.consensus_block_id ELSE rt,
     log |-> lg, latest_li |-> lli,
     result |-> Err("StorageError"), retry |-> FALSE, saved |-> FALSE,
     aborted |-> FALSE]

\* commit_blocks: an error from save_transactions is returned (the ? operator)
\* before anything is pruned.
SaveFailed(bs, rt, lg, lli, li) ==
    [blocks |-> bs, root |-> rt, log |-> lg, latest_li |-> lli,
     result |-> Err("StorageError"), retry |-> FALSE, saved |-> FALSE,
     aborted |-> FALSE]

\* Variants of the prune step: one that moves the root and keeps every node,
\* one that returns the prune failure to the caller.
PruneAfterSave_KeepsAll(bs, rt, li) ==
    IF li.consensus_block_id \notin DOMAIN bs
    THEN [blocks |-> bs, root |-> rt, result |-> Err("Panic"), aborted |-> TRUE]
    ELSE [blocks |-> [bs EXCEPT ![li.consensus_block_id].num_persisted = li.version + 1],
          root |-> li.consensus_block_id,
          result |-> Ok(NoSCR), aborted |-> FALSE]

PruneAfterSave_ReturnsError(bs, rt, li) ==
    IF li.consensus_block_id \notin DOMAIN bs
    THEN [blocks |-> bs, root |-> rt, result |-> Err("PruneError"), aborted |-> FALSE]
    ELSE [blocks |-> prune(bs, li), root |-> li.consensus_block_id,
          result |-> Ok(NoSCR), aborted |-> FALSE]

\* commit_blocks: after a successful persist the tree is pruned; a prune that
\* fails (the target is not in the tree) panics.
PruneAfterSave(bs, rt, li) ==
    IF li.consensus_block_id \notin DOMAIN bs
    THEN [blocks |-> bs, root |-> rt, result |-> Err("Panic"), aborted |-> TRUE]
    ELSE [blocks |-> prune(bs, li), root |-> li.consensus_block_id,
          result |-> Ok(NoSCR), aborted |-> FALSE]

\* What one commit_blocks call does to storage and the tree, and what it returns.
\* saved: save_transactions was called and succeeded.  aborted: the process
\* panicked, so nothing is returned.
commit_blocks(bs, rt, lg, lli, block_ids, li, fault) ==
    LET committed_block == root_block(bs, rt) IN
    IF IsRetryCommit(committed_block.num_persisted, li)
    THEN FailCommit(bs, rt, lg, lli, Ok(NoSCR), TRUE)
    ELSE IF FirstMissing(bs, block_ids) # 0
    THEN FailCommit(bs, rt, lg, lli,
                    BlockNotFound(block_ids[FirstMissing(bs, block_ids)]), FALSE)
    ELSE
    LET txns_to_commit == TxnsToCommit(bs, block_ids)
        first_version == Len(committed_block.output.acc)
        to_commit == Len(txns_to_commit)
        target_version == li.version
    IN
    IF BadNum(first_version, to_commit, target_version)
    THEN FailCommit(bs, rt, lg, lli,
                    BadNumTxnsToCommit(first_version, to_commit, target_version), FALSE)
    ELSE IF fault = "inject"
    THEN FailCommit(bs, rt, lg, lli, Err("Injected"), FALSE)
    ELSE IF fault = "storage" \/ ~SaveAccepts(lg, first_version)
    THEN SaveFailed(bs, rt, lg, lli, li)
    ELSE [blocks |-> PruneAfterSave(bs, rt, li).blocks,
          root |-> PruneAfterSave(bs, rt, li).root,
          log |-> lg \o txns_to_commit, latest_li |-> li,
          result |-> PruneAfterSave(bs, rt, li).result,
          retry |-> FALSE, saved |-> TRUE,
          aborted |-> PruneAfterSave(bs, rt, li).aborted]

\* ----------------------------------------------------------- db bootstrapper
\* block_info::{GENESIS_EPOCH, GENESIS_ROUND, GENESIS_TIMESTAMP_USECS}
GENESIS_EPOCH == 0
GENESIS_ROUND == 0
GENESIS_TIMESTAMP_USECS == 0

\* A variant with another id for the genesis block.
genesis_block_id_NonZero == ZeroHash + 1

genesis_block_id == ZeroHash

\* The on-chain state is a function of the transactions applied so far.
EpochBump(t) ==
    IF t \in ReconfigTxn \cup BumpOnlyTxn THEN 1
    ELSE IF t \in SkipEpochTxn THEN 2 ELSE 0

\* get_state_epoch: ConfigurationResource.epoch of the state after these txns.
RECURSIVE get_state_epoch(_)
get_state_epoch(view) ==
    IF view = <<>> THEN 0
    ELSE get_state_epoch(SubSeq(view, 1, Len(view) - 1)) + EpochBump(view[Len(view)])

\* get_state_epoch: "ConfigurationResource missing." on a state no transaction
\* has written the configuration to.
ConfigurationMissing(view) == \A i \in 1..Len(view) : EpochBump(view[i]) = 0

\* get_state_timestamp: TimestampResource of the state after these txns.
get_state_timestamp(view) == Len(view)

\* Waypoint::new_epoch_boundary: the version and the accumulator root of the
\* epoch-boundary ledger info.
Waypoint(ledger_info) ==
    [version |-> ledger_info.version, value |-> ledger_info.root_hash]

\* The faults the environment can raise: a VM error on the genesis
\* transaction, a save_transactions error.
BootFaults == {"none", "vm", "storage"}

\* calculate_genesis: the epoch the genesis ledger info closes.
PriorEpoch(genesis_version, base_view) ==
    IF genesis_version = 0 THEN GENESIS_EPOCH ELSE get_state_epoch(base_view)

\* calculate_genesis: "Genesis txn execution failed."
NothingToCommit(output) == output.to_commit = <<>>

\* calculate_genesis: "Genesis txn didn't bump epoch.", on a non-empty ledger only.
EpochNotBumped(genesis_version, epoch, output) ==
    genesis_version # 0 /\ epoch + 1 # get_state_epoch(output.acc)

\* A variant that uses the constant on every ledger.
GenesisTimestamp_Constant(genesis_version, output) == GENESIS_TIMESTAMP_USECS

\* A variant that reads the timestamp from the state on every ledger.
GenesisTimestamp_FromState(genesis_version, output) == get_state_timestamp(output.acc)

\* calculate_genesis: timestamp_usecs of the genesis ledger info.
GenesisTimestamp(genesis_version, output) ==
    IF genesis_version = 0 THEN GENESIS_TIMESTAMP_USECS
    ELSE get_state_timestamp(output.acc)

\* A variant that does not require the reconfiguration event.
NoReconfigEvent_Never(output) == FALSE

\* calculate_genesis: "Genesis txn didn't output reconfig event."
NoReconfigEvent(output) == ~has_reconfiguration(output)

\* A variant that builds the ledger info of the state after genesis: its
\* version and its epoch.
GenesisLedgerInfo_AfterGenesis(epoch, genesis_version, timestamp_usecs, output) ==
    [epoch |-> epoch + 1, round |-> GENESIS_ROUND, id |-> genesis_block_id,
     root_hash |-> output.acc, version |-> Len(output.acc),
     timestamp_usecs |-> timestamp_usecs, nes |-> output.nes,
     consensus_data_hash |-> genesis_block_id, signatures |-> {}]

\* calculate_genesis: LedgerInfoWithSignatures::new(LedgerInfo::new(
\* BlockInfo::new(..), genesis_block_id()), BTreeMap::default()).
GenesisLedgerInfo(epoch, genesis_version, timestamp_usecs, output) ==
    [epoch |-> epoch, round |-> GENESIS_ROUND, id |-> genesis_block_id,
     root_hash |-> output.acc, version |-> genesis_version,
     timestamp_usecs |-> timestamp_usecs, nes |-> output.nes,
     consensus_data_hash |-> genesis_block_id, signatures |-> {}]

NoGenesis == [ok |-> FALSE, error |-> "", executed |-> FALSE,
              output |-> EmptyChunk(<<>>), waypoint |-> [version |-> 0, value |-> <<>>],
              epoch |-> 0, timestamp_usecs |-> 0,
              ledger_info |-> GenesisLedgerInfo(0, 0, 0, EmptyChunk(<<>>))]

GenesisError(error, executed) ==
    [NoGenesis EXCEPT !.error = error, !.executed = executed]

\* calculate_genesis: the GenesisCommitter (output, ledger info, waypoint) or
\* the error.  executed: the VM was given the genesis transaction.
calculate_genesis(lg, genesis_txn, fault) ==
    LET genesis_version == Len(lg)
        base_view == lg
        epoch == PriorEpoch(genesis_version, base_view)
        output == apply_to_ledger(by_transaction_execution(<<genesis_txn>>), base_view)
        timestamp_usecs == GenesisTimestamp(genesis_version, output)
        ledger_info == GenesisLedgerInfo(epoch, genesis_version, timestamp_usecs, output)
    IN
    IF genesis_version # 0 /\ ConfigurationMissing(base_view)
    THEN GenesisError("ConfigurationMissing", FALSE)
    ELSE IF fault = "vm" THEN GenesisError("VMError", TRUE)
    ELSE IF NothingToCommit(output) THEN GenesisError("GenesisFailed", TRUE)
    ELSE IF EpochNotBumped(genesis_version, epoch, output)
    THEN GenesisError("EpochNotBumped", TRUE)
    ELSE IF NoReconfigEvent(output) THEN GenesisError("NoReconfigEvent", TRUE)
    ELSE [ok |-> TRUE, error |-> "", executed |-> TRUE, output |-> output,
          waypoint |-> Waypoint(ledger_info),
          epoch |-> epoch, timestamp_usecs |-> timestamp_usecs,
          ledger_info |-> ledger_info]

\* generate_waypoint
generate_waypoint(lg, genesis_txn, fault) == calculate_genesis(lg, genesis_txn, fault)

\* A variant that skips only a database that is behind the waypoint.
SkipGenesis_BehindOnly(num_transactions, waypoint) ==
    num_transactions < waypoint.version

\* Variants of the version test: against the version after genesis, and none.
SkipGenesis_NextVersion(num_transactions, waypoint) ==
    num_transactions + 1 # waypoint.version

SkipGenesis_Never(num_transactions, waypoint) == FALSE

\* maybe_bootstrap: the waypoint is not targeted with the genesis txn.
SkipGenesis(num_transactions, waypoint) == num_transactions # waypoint.version

\* A variant that compares the versions only.
WaypointVerified_VersionOnly(waypoint, committer) ==
    waypoint.version = committer.waypoint.version

\* maybe_bootstrap: ensure!(waypoint == committer.waypoint())
WaypointVerified(waypoint, committer) == waypoint = committer.waypoint

BootResult(lg, lli, result, executed, saved) ==
    [log |-> lg, latest_li |-> lli, result |-> result,
     executed |-> executed, saved |-> saved]

\* A variant that passes the number of leaves of the result accumulator.
GenesisFirstVersion_NumLeaves(output) == Len(output.acc)

\* GenesisCommitter::commit: the first_version it passes, the version of the
\* result accumulator (its last leaf).
GenesisFirstVersion(output) == Len(output.acc) - 1

\* GenesisCommitter::commit: save_transactions(to_commit, version of the
\* result accumulator, ledger info).
GenesisCommit(lg, lli, committer, fault) ==
    IF fault = "storage" \/ ~SaveAccepts(lg, GenesisFirstVersion(committer.output))
    THEN BootResult(lg, lli, "Err(StorageError)", TRUE, FALSE)
    ELSE BootResult(lg \o committer.output.to_commit,
                    LedgerInfo(committer.waypoint.version, genesis_block_id),
                    "Ok(true)", TRUE, TRUE)

\* What one maybe_bootstrap call does to storage and what it returns.
maybe_bootstrap(lg, lli, genesis_txn, waypoint, fault) ==
    IF SkipGenesis(Len(lg), waypoint)
    THEN BootResult(lg, lli, "Ok(false)", FALSE, FALSE)
    ELSE
    LET committer == calculate_genesis(lg, genesis_txn, fault) IN
    IF ~committer.ok
    THEN BootResult(lg, lli, "Err(" \o committer.error \o ")", committer.executed, FALSE)
    ELSE IF ~WaypointVerified(waypoint, committer)
    THEN BootResult(lg, lli, "Err(WaypointMismatch)", TRUE, FALSE)
    ELSE GenesisCommit(lg, lli, committer, fault)

\* ------------------------------------------------------------------ reset
\* A variant that leaves the tree as it is.
reset_KeepsTree(lg, lli) == [blocks |-> blocks, root |-> root]

\* BlockExecutor::reset: the tree is rebuilt from storage.
reset(lg, lli) ==
    [blocks |-> TreeFromStorage(lg, lli), root |-> RootIdFromStorage(lli)]

\* ------------------------------------------------------------- aptos-node
\* No node process: the executor and the bootstrapper are driven directly.
NodeOff ==
    [pc |-> "off", genesis |-> "none", waypoint |-> [version |-> 0, value |-> <<>>],
     validator |-> FALSE, boot |-> "none", started |-> {}]

\* No database-generation pipeline.
PipeOff ==
    [total |-> 0, generated |-> 0, gen |-> "off", main |-> "off",
     sender_dropped |-> FALSE, block_queue |-> <<>>,
     exe |-> "off", exe_block |-> 0, executed |-> <<>>,
     commit_queue |-> <<>>, committer |-> "off", commit_block |-> 0,
     committed |-> <<>>]

\* No execute_block call in progress.
NoCommit == [done |-> FALSE, block_ids |-> <<>>, li |-> NoLedgerInfo]

NoCall ==
    [pc |-> "idle", block_id |-> ZeroHash, transactions |-> <<>>,
     parent_block_id |-> ZeroHash, committed_id |-> ZeroHash,
     output |-> EmptyChunk(<<>>), parent_accumulator |-> <<>>, vm |-> FALSE,
     result |-> Ok(NoSCR), root_at_get |-> ZeroHash, root_at_attach |-> ZeroHash,
     at_call |-> [blocks |-> <<>>, root |-> ZeroHash, log |-> <<>>,
                  latest_li |-> NoLedgerInfo],
     commit |-> NoCommit]

\* ------------------------------------------------------------------ calls
InitStorage == {<<>>, <<"a">>}

Init ==
    /\ log \in InitStorage
    /\ latest_li = IF log = <<>> THEN NoLedgerInfo ELSE LedgerInfo(Len(log) - 1, ZeroHash)
    /\ blocks = TreeFromStorage(log, latest_li)
    /\ root = RootIdFromStorage(latest_li)
    /\ aborted = FALSE
    /\ node = NodeOff
    /\ pipe = PipeOff
    /\ call = NoCall

\* The inputs of a call are drawn only where the call reads them: a fault where
\* the call reaches the place that can fail, the transactions where the VM is
\* given them, the block ids where commit_blocks looks them up.
ReachesVm(block_id, parent_block_id) ==
    /\ parent_block_id \in DOMAIN blocks
    /\ block_id \notin DOMAIN blocks
    /\ ~UseReconfigSuffix(parent_block_id, root, blocks[parent_block_id].output)

ExecFaultsAt(block_id, parent_block_id) ==
    IF ReachesVm(block_id, parent_block_id) THEN ExecFaults ELSE {"none"}

TxnListsAt(block_id, parent_block_id, fault) ==
    IF ReachesVm(block_id, parent_block_id) /\ fault = "none" THEN TxnLists ELSE {<<>>}

IdListsAt(li) ==
    IF IsRetryCommit(root_block(blocks, root).num_persisted, li) THEN {<<>>} ELSE IdLists

CommitFaultsAt(block_ids, li) ==
    IF /\ ~IsRetryCommit(root_block(blocks, root).num_persisted, li)
       /\ FirstMissing(blocks, block_ids) = 0
       /\ ~BadNum(Len(root_block(blocks, root).output.acc),
                  Len(Flatten(blocks, block_ids, 1)), li.version)
    THEN CommitFaults ELSE {"none"}

LedgerInfos == {LedgerInfo(v, b) : v \in 0..(MaxVersion - 1), b \in AllIds}

ExecuteCall(block_id, transactions, parent_block_id, fault) ==
    /\ ~aborted
    /\ \E o \in {execute_block(blocks, root, block_id, transactions,
                               parent_block_id, fault)} :
            /\ \A b \in DOMAIN o.blocks : Len(o.blocks[b].output.acc) <= MaxVersion
            /\ blocks' = o.blocks
    /\ UNCHANGED <<root, log, latest_li, aborted, node, pipe, call>>

ExecuteBlock ==
    \E block_id \in AllIds, parent_block_id \in AllIds :
    \E fault \in ExecFaultsAt(block_id, parent_block_id) :
    \E transactions \in TxnListsAt(block_id, parent_block_id, fault) :
        ExecuteCall(block_id, transactions, parent_block_id, fault)

CommitCall(block_ids, li, fault) ==
    /\ ~aborted
    /\ \E o \in {commit_blocks(blocks, root, log, latest_li, block_ids, li, fault)} :
            /\ blocks' = o.blocks
            /\ root' = o.root
            /\ log' = o.log
            /\ latest_li' = o.latest_li
            /\ aborted' = o.aborted
    /\ UNCHANGED <<node, pipe, call>>

CommitBlocks ==
    \E li \in LedgerInfos :
    \E block_ids \in IdListsAt(li) :
    \E fault \in CommitFaultsAt(block_ids, li) :
        CommitCall(block_ids, li, fault)

Reset ==
    /\ ~aborted
    /\ blocks' = reset(log, latest_li).blocks
    /\ root' = reset(log, latest_li).root
    /\ UNCHANGED <<log, latest_li, aborted, node, pipe, call>>

Next == ExecuteBlock \/ CommitBlocks \/ Reset

Spec == Init /\ [][Next]_vars

\* ------------------------------------------------------------ node life
\* A database is bootstrapped while no executor runs on it; an executor is
\* then constructed on it, executes and commits blocks, and is shut down.
NoExecutor == DOMAIN blocks = {}

BootInit ==
    /\ log = <<>>
    /\ latest_li = NoLedgerInfo
    /\ blocks = <<>>
    /\ root = ZeroHash
    /\ aborted = FALSE
    /\ node = NodeOff
    /\ pipe = PipeOff
    /\ call = NoCall

\* The waypoints a caller may hold: one generated from this database, the one
\* of the first genesis, or one generated elsewhere (another version, another
\* genesis transaction).
WaypointsFor(lg) ==
    LET generated == {generate_waypoint(l, tx, "none").waypoint :
                        l \in {lg, <<>>}, tx \in GenesisTxns}
    IN generated \cup
       {[version |-> v, value |-> w.value] : w \in generated, v \in 0..MaxVersion}

BootCall(genesis_txn, waypoint, fault) ==
    /\ NoExecutor
    /\ \E o \in {maybe_bootstrap(log, latest_li, genesis_txn, waypoint, fault)} :
            /\ Len(o.log) <= MaxVersion
            /\ log' = o.log
            /\ latest_li' = o.latest_li
    /\ UNCHANGED <<blocks, root, aborted, node, pipe, call>>

MaybeBootstrap ==
    \E genesis_txn \in GenesisTxns, fault \in BootFaults :
    \E waypoint \in WaypointsFor(log) :
        BootCall(genesis_txn, waypoint, fault)

\* BlockExecutor::new on the database.
NewExecutor ==
    /\ NoExecutor
    /\ blocks' = TreeFromStorage(log, latest_li)
    /\ root' = RootIdFromStorage(latest_li)
    /\ UNCHANGED <<log, latest_li, aborted, node, pipe, call>>

\* The executor at work: one block at a time on the committed block.
RunExecute ==
    /\ ~NoExecutor
    /\ \E block_id \in BlockIds, transactions \in TxnLists :
          ExecuteCall(block_id, transactions, root, "none")

RunCommit ==
    /\ ~NoExecutor
    /\ \E block_id \in BlockIds, v \in 0..(MaxVersion - 1) :
          CommitCall(<<block_id>>, LedgerInfo(v, block_id), "none")

\* The process ends; the database stays.
Shutdown ==
    /\ ~NoExecutor
    /\ blocks' = <<>>
    /\ root' = ZeroHash
    /\ aborted' = FALSE
    /\ UNCHANGED <<log, latest_li, node, pipe, call>>

BootNext == MaybeBootstrap \/ NewExecutor \/ RunExecute \/ RunCommit \/ Shutdown

BootSpec == BootInit /\ [][BootNext]_vars

\* ------------------------------------------------------------ node start
\* setup_environment, one step per stage.  The configuration holds the genesis
\* transaction, if any, the genesis waypoint, and whether the node has a
\* validator network (and so runs consensus).
NoGenesisTxn == "none"

NodeConfigs(lg) ==
    {[genesis |-> g, waypoint |-> w, validator |-> v] :
        g \in GenesisTxns \cup {NoGenesisTxn}, w \in WaypointsFor(lg),
        v \in BOOLEAN}

NodeAt(cfg) ==
    [pc |-> "open", genesis |-> cfg.genesis, waypoint |-> cfg.waypoint,
     validator |-> cfg.validator, boot |-> "none", started |-> {}]

NodeInit ==
    /\ log = <<>>
    /\ latest_li = NoLedgerInfo
    /\ blocks = <<>>
    /\ root = ZeroHash
    /\ aborted = FALSE
    /\ node \in {NodeAt(cfg) : cfg \in NodeConfigs(<<>>)}
    /\ pipe = PipeOff
    /\ call = NoCall

\* A stage that starts components and goes on to the next stage.
StartStage(from, to, components) ==
    /\ ~aborted
    /\ node.pc = from
    /\ node' = [node EXCEPT !.pc = to, !.started = @ \cup components]
    /\ UNCHANGED <<blocks, root, log, latest_li, aborted, pipe, call>>

\* The debug interface, the metric servers, the database, the storage service
\* and the backup service come first.
StartServices ==
    StartStage("open", "bootstrap",
               {"debug_interface", "metrics", "storage_service", "backup_service"})

\* A variant that goes on after a failed bootstrap.
BootstrapFailed_Ignored(result) == FALSE

\* maybe_bootstrap(..).expect("Db-bootstrapper should not fail.")
BootstrapFailed(result) == result \notin {"Ok(true)", "Ok(false)"}

\* if let Some(genesis) = get_genesis_txn(node_config) { maybe_bootstrap } else { info }
Bootstrap ==
    /\ ~aborted
    /\ node.pc = "bootstrap"
    /\ IF node.genesis = NoGenesisTxn
       THEN /\ node' = [node EXCEPT !.pc = "chain_id", !.boot = "skipped"]
            /\ UNCHANGED <<log, latest_li, aborted>>
       ELSE \E fault \in BootFaults :
            \E o \in {maybe_bootstrap(log, latest_li, node.genesis, node.waypoint, fault)} :
               /\ Len(o.log) <= MaxVersion
               /\ log' = o.log
               /\ latest_li' = o.latest_li
               /\ aborted' = BootstrapFailed(o.result)
               /\ node' = [node EXCEPT
                              !.pc = IF BootstrapFailed(o.result)
                                     THEN "panicked" ELSE "chain_id",
                              !.boot = o.result]
    /\ UNCHANGED <<blocks, root, pipe, call>>

\* fetch_chain_id: a database nothing was ever written to has no chain id
\* resource, and each of its expect calls panics.
ChainIdMissing(lg) == lg = <<>>

FetchChainId ==
    /\ ~aborted
    /\ node.pc = "chain_id"
    /\ aborted' = ChainIdMissing(log)
    /\ node' = [node EXCEPT !.pc = IF ChainIdMissing(log) THEN "panicked" ELSE "network"]
    /\ UNCHANGED <<blocks, root, log, latest_li, pipe, call>>

StartNetworks == StartStage("network", "state_sync", {"network"})

StartStateSync == StartStage("state_sync", "api", {"state_sync"})

StartApi == StartStage("api", "mempool", {"api"})

StartMempool == StartStage("mempool", "consensus", {"mempool"})

\* Consensus is started on a node that has consensus network handles.
StartConsensus ==
    StartStage("consensus", "up", IF node.validator THEN {"consensus"} ELSE {})

\* The process is started again, on the same database, with a configuration.
Restart ==
    /\ node.pc \in {"up", "panicked"}
    /\ node' \in {NodeAt(cfg) : cfg \in NodeConfigs(log)}
    /\ aborted' = FALSE
    /\ UNCHANGED <<blocks, root, log, latest_li, pipe, call>>

NodeNext ==
    \/ StartServices \/ Bootstrap \/ FetchChainId \/ StartNetworks
    \/ StartStateSync \/ StartApi \/ StartMempool \/ StartConsensus \/ Restart

NodeSpec == NodeInit /\ [][NodeNext]_vars

\* ------------------------------------------------- database generation
\* db_generator::run: a generator, an executor and a committer thread, joined
\* by the main thread, and two channels made by sync_channel(3).  A block is
\* its number in generation order.
QueueBound == 3

\* A variant of a channel without a bound.
QueueFull_Never(queue) == FALSE

\* SyncSender::send blocks while the channel holds its bound of items.
QueueFull(queue) == Len(queue) >= QueueBound

PipeInit ==
    /\ log = <<>>
    /\ latest_li = NoLedgerInfo
    /\ blocks = <<>>
    /\ root = ZeroHash
    /\ aborted = FALSE
    /\ node = NodeOff
    /\ call = NoCall
    /\ pipe \in {[PipeOff EXCEPT !.total = n, !.gen = "run", !.main = "join_gen",
                                  !.exe = "recv", !.committer = "recv"] :
                    n \in 0..MaxGenerated}

PipeStep(p) ==
    /\ pipe' = p
    /\ UNCHANGED <<blocks, root, log, latest_li, aborted, node, call>>

\* Generator thread: run_mint sends the blocks, then the thread returns the
\* generator, which still holds block_sender.
GenSend ==
    /\ pipe.gen = "run" /\ pipe.generated < pipe.total
    /\ ~QueueFull(pipe.block_queue)
    /\ PipeStep([pipe EXCEPT !.generated = @ + 1,
                             !.block_queue = Append(@, pipe.generated + 1)])

GenReturn ==
    /\ pipe.gen = "run" /\ pipe.generated = pipe.total
    /\ PipeStep([pipe EXCEPT !.gen = "done"])

\* Main thread: gen_thread.join(), generator.drop_sender(), exe_thread.join(),
\* commit_thread.join().
JoinGenerator ==
    /\ pipe.main = "join_gen" /\ pipe.gen = "done"
    /\ PipeStep([pipe EXCEPT !.main = "drop_sender"])

DropSender ==
    /\ pipe.main = "drop_sender"
    /\ PipeStep([pipe EXCEPT !.main = "join_exe", !.sender_dropped = TRUE])

JoinExecutor ==
    /\ pipe.main = "join_exe" /\ pipe.exe = "done"
    /\ PipeStep([pipe EXCEPT !.main = "join_commit"])

JoinCommitter ==
    /\ pipe.main = "join_commit" /\ pipe.committer = "done"
    /\ PipeStep([pipe EXCEPT !.main = "done"])

\* Executor thread: while let Ok(transactions) = block_receiver.recv().
\* recv fails once the sender is dropped and the channel is empty; the thread
\* then ends and drops exe, and with it commit_sender.
ExeRecv ==
    /\ pipe.exe = "recv" /\ pipe.block_queue # <<>>
    /\ PipeStep([pipe EXCEPT !.exe = "execute", !.exe_block = Head(pipe.block_queue),
                             !.block_queue = Tail(@)])

ExeStop ==
    /\ pipe.exe = "recv" /\ pipe.block_queue = <<>> /\ pipe.sender_dropped
    /\ PipeStep([pipe EXCEPT !.exe = "done"])

\* TransactionExecutor::execute_block: execute, then send to the committer.
ExeExecute ==
    /\ pipe.exe = "execute"
    /\ PipeStep([pipe EXCEPT !.exe = "send", !.executed = Append(@, pipe.exe_block)])

ExeSend ==
    /\ pipe.exe = "send" /\ ~QueueFull(pipe.commit_queue)
    /\ PipeStep([pipe EXCEPT !.exe = "recv", !.exe_block = 0,
                             !.commit_queue = Append(@, pipe.exe_block)])

\* Committer thread: TransactionCommitter::run receives until the channel is
\* empty and its sender is gone.
CommitRecv ==
    /\ pipe.committer = "recv" /\ pipe.commit_queue # <<>>
    /\ PipeStep([pipe EXCEPT !.committer = "commit",
                             !.commit_block = Head(pipe.commit_queue),
                             !.commit_queue = Tail(@)])

CommitStop ==
    /\ pipe.committer = "recv" /\ pipe.commit_queue = <<>> /\ pipe.exe = "done"
    /\ PipeStep([pipe EXCEPT !.committer = "done"])

CommitOne ==
    /\ pipe.committer = "commit"
    /\ PipeStep([pipe EXCEPT !.committer = "recv", !.commit_block = 0,
                             !.committed = Append(@, pipe.commit_block)])

GenThread == GenSend \/ GenReturn

MainThread == JoinGenerator \/ DropSender \/ JoinExecutor \/ JoinCommitter

ExeThread == ExeRecv \/ ExeStop \/ ExeExecute \/ ExeSend

CommitThread == CommitRecv \/ CommitStop \/ CommitOne

PipeNext == GenThread \/ MainThread \/ ExeThread \/ CommitThread

\* Each thread that can take a step takes one in the end.
PipeSpec ==
    /\ PipeInit /\ [][PipeNext]_vars
    /\ WF_vars(GenThread) /\ WF_vars(MainThread)
    /\ WF_vars(ExeThread) /\ WF_vars(CommitThread)

\* ------------------------------------------------------ concurrent calls
\* The executor thread and the committer thread of db_generator::run hold the
\* same BlockExecutor.  BlockExecutor has no lock of its own: execute_block
\* goes to the tree three times (root_block, get_blocks_opt, add_block), and a
\* commit_blocks of the other thread can run between two of them.
ConcTxnLists == {<<"a">>, <<"r">>}

\* Calls made one after the other, which build the tree.
SerialExecute ==
    /\ call.pc = "idle"
    /\ \E block_id \in BlockIds, parent_block_id \in AllIds :
       \E transactions \in ConcTxnLists :
            ExecuteCall(block_id, transactions, parent_block_id, "none")

CommitInputs == {<<<<b>>, LedgerInfo(v, b)>> : b \in BlockIds, v \in 0..(MaxVersion - 1)}

SerialCommit ==
    /\ call.pc = "idle"
    /\ \E c \in CommitInputs : CommitCall(c[1], c[2], "none")

\* execute_block, first step: committed_block = root_block().
CallBegin(block_id, transactions, parent_block_id) ==
    /\ ~aborted /\ call.pc = "idle"
    /\ parent_block_id \in DOMAIN blocks =>
            Len(blocks[parent_block_id].output.acc) + Len(transactions) <= MaxVersion
    /\ call' = [NoCall EXCEPT
                    !.pc = "get_blocks", !.block_id = block_id,
                    !.transactions = transactions,
                    !.parent_block_id = parent_block_id,
                    !.committed_id = root,
                    !.root_at_get = root, !.root_at_attach = root,
                    !.at_call = [blocks |-> blocks, root |-> root, log |-> log,
                                 latest_li |-> latest_li]]
    /\ UNCHANGED <<blocks, root, log, latest_li, aborted, node, pipe>>

\* execute_block, second step: get_blocks_opt, then the returns for a missing
\* parent and for a retry, else the output of the block, computed from the
\* parent that was read and the committed block that was read before.
CallGetBlocks ==
    /\ ~aborted /\ call.pc = "get_blocks"
    /\ \E block_vec \in {get_blocks_opt(blocks, <<call.block_id, call.parent_block_id>>)} :
        IF ParentMissing(block_vec)
        THEN call' = [call EXCEPT !.pc = "return", !.root_at_get = root,
                         !.root_at_attach = root,
                         !.result = ParentNotFound(call.block_id, call.parent_block_id)]
        ELSE IF IsRetryExecute(block_vec)
        THEN call' = [call EXCEPT !.pc = "return", !.root_at_get = root,
                         !.root_at_attach = root,
                         !.result = Ok(as_state_compute_result(
                                          blocks[call.block_id].output,
                                          blocks[call.parent_block_id].output.acc))]
        ELSE \E parent_output \in {blocks[call.parent_block_id].output} :
             call' = [call EXCEPT !.pc = "attach", !.root_at_get = root,
                         !.parent_accumulator = parent_output.acc,
                         !.vm = ~UseReconfigSuffix(call.parent_block_id,
                                                   call.committed_id, parent_output),
                         !.output =
                            IF UseReconfigSuffix(call.parent_block_id,
                                                 call.committed_id, parent_output)
                            THEN reconfig_suffix(parent_output)
                            ELSE apply_to_ledger(
                                    by_transaction_execution(call.transactions),
                                    parent_output.acc)]
    /\ UNCHANGED <<blocks, root, log, latest_li, aborted, node, pipe>>

\* execute_block, third step: add_block and the result.
CallAttach ==
    /\ ~aborted /\ call.pc = "attach"
    /\ \E o \in {Attach(blocks, call.parent_block_id, call.block_id, call.output,
                         call.parent_accumulator, call.vm)} :
            /\ blocks' = o.blocks
            /\ call' = [call EXCEPT !.pc = "return", !.result = o.result,
                                    !.root_at_attach = root]
    /\ UNCHANGED <<root, log, latest_li, aborted, node, pipe>>

CallReturn ==
    /\ call.pc = "return"
    /\ call' = NoCall
    /\ UNCHANGED <<blocks, root, log, latest_li, aborted, node, pipe>>

\* commit_blocks of the committer thread while the executor thread is inside
\* execute_block.
ConcurrentCommit(block_ids, li) ==
    /\ ~aborted /\ call.pc \in {"get_blocks", "attach"} /\ ~call.commit.done
    /\ \E o \in {commit_blocks(blocks, root, log, latest_li, block_ids, li, "none")} :
            /\ blocks' = o.blocks
            /\ root' = o.root
            /\ log' = o.log
            /\ latest_li' = o.latest_li
            /\ aborted' = o.aborted
    /\ call' = [call EXCEPT !.commit = [done |-> TRUE, block_ids |-> block_ids,
                                        li |-> li]]
    /\ UNCHANGED <<node, pipe>>

ConcurrentExecute ==
    \/ \E block_id \in AllIds, parent_block_id \in AllIds :
            CallBegin(block_id, <<"a">>, parent_block_id)
    \/ CallGetBlocks
    \/ CallAttach
    \/ CallReturn

ConcNext ==
    \/ SerialExecute
    \/ SerialCommit
    \/ ConcurrentExecute
    \/ \E c \in CommitInputs : ConcurrentCommit(c[1], c[2])

ConcSpec == Init /\ [][ConcNext]_vars

\* The commit that ran during a call, made on another tree.
CommitOn(bs, rt, c) ==
    IF c.commit.done
    THEN commit_blocks(bs, rt, c.at_call.log, c.at_call.latest_li,
                       c.commit.block_ids, c.commit.li, "none").blocks
    ELSE bs

RootAfterCommit(c) ==
    IF c.commit.done
    THEN commit_blocks(c.at_call.blocks, c.at_call.root, c.at_call.log,
                       c.at_call.latest_li, c.commit.block_ids, c.commit.li,
                       "none").root
    ELSE c.at_call.root

\* The call made entirely before the commit, and entirely after it: the
\* result of the call and the tree once both are done.
SerialBefore(c) ==
    [result |-> execute_block(c.at_call.blocks, c.at_call.root, c.block_id,
                              c.transactions, c.parent_block_id, "none").result,
     blocks |-> CommitOn(execute_block(c.at_call.blocks, c.at_call.root, c.block_id,
                                       c.transactions, c.parent_block_id,
                                       "none").blocks,
                         c.at_call.root, c)]

SerialAfter(c) ==
    [result |-> execute_block(CommitOn(c.at_call.blocks, c.at_call.root, c),
                              RootAfterCommit(c), c.block_id, c.transactions,
                              c.parent_block_id, "none").result,
     blocks |-> execute_block(CommitOn(c.at_call.blocks, c.at_call.root, c),
                              RootAfterCommit(c), c.block_id, c.transactions,
                              c.parent_block_id, "none").blocks]

\* ------------------------------------------------------------- properties
\* The outcome of a call made in the current state.
ExecNow(block_id, transactions, parent_block_id, fault) ==
    execute_block(blocks, root, block_id, transactions, parent_block_id, fault)

CommitNow(block_ids, li, fault) ==
    commit_blocks(blocks, root, log, latest_li, block_ids, li, fault)

\* The retry case of commit_blocks, as its caller states it.
AtTip(li) == blocks[root].num_persisted = li.version + 1

AllPresent(ids) == \A i \in 1..Len(ids) : ids[i] \in DOMAIN blocks

RECURSIVE NumToCommit(_, _)
NumToCommit(ids, i) ==
    IF i > Len(ids) THEN 0
    ELSE Len(blocks[ids[i]].output.to_commit) + NumToCommit(ids, i + 1)

\* The blocks on the path from the root to block t.
RECURSIVE PathFrom(_, _)
PathFrom(t, fuel) ==
    IF t = root \/ fuel = 0 \/ t \notin DOMAIN blocks THEN {t}
    ELSE {t} \cup PathFrom(blocks[t].parent_id, fuel - 1)

Speculative == DOMAIN blocks \ {root}

\* C1: in every reachable state, a successful execute_block((id, txns), p)
\* followed by the same call returns the same StateComputeResult the second
\* time, as a retry that does not run the VM whatever fault is armed, and the
\* second call leaves the tree as the first left it, with id in it.
C1_IdempotentExecute ==
    \A id \in AllIds, p \in AllIds, txns \in TxnLists, f1 \in ExecFaults :
    \A o1 \in {ExecNow(id, txns, p, f1)} :
        o1.result.kind = "Ok" =>
            \A f2 \in ExecFaults :
            \A o2 \in {execute_block(o1.blocks, root, id, txns, p, f2)} :
                /\ o2.result = o1.result
                /\ o2.blocks = o1.blocks
                /\ id \in DOMAIN o2.blocks
                /\ o2.retry /\ ~o2.vm

\* A block executed with transactions is in the tree, and the same call again
\* is answered from the tree.
C1_Witness ==
    \E id \in Speculative :
        /\ blocks[id].output.to_commit # <<>>
        /\ ExecNow(id, <<"a">>, blocks[id].parent_id, "none").retry
        /\ ExecNow(id, <<"a">>, blocks[id].parent_id, "none").result.kind = "Ok"

\* C2: in every reachable state, a successful commit_blocks(ids, li) followed
\* by the same call: the first called save_transactions unless the root
\* already stood at li.version + 1; the second returns success, does not call
\* save_transactions and changes neither storage nor the tree.
C2_IdempotentCommit ==
    \A ids \in IdLists, li \in LedgerInfos, f1 \in CommitFaults :
    \A o1 \in {CommitNow(ids, li, f1)} :
        (o1.result.kind = "Ok" /\ ~o1.aborted) =>
            /\ (~AtTip(li) => o1.saved)
            /\ \A f2 \in CommitFaults :
               \A o2 \in {commit_blocks(o1.blocks, o1.root, o1.log, o1.latest_li,
                                        ids, li, f2)} :
                    /\ o2.result.kind = "Ok" /\ ~o2.saved /\ ~o2.aborted
                    /\ o2.blocks = o1.blocks /\ o2.root = o1.root
                    /\ o2.log = o1.log /\ o2.latest_li = o1.latest_li

\* A commit of this run has persisted a block, and the same commit again is a
\* retry.
C2_Witness ==
    /\ ~aborted /\ latest_li.present /\ root # ZeroHash
    /\ root = latest_li.consensus_block_id
    /\ blocks[root].output.to_commit # <<>>
    /\ Len(log) = latest_li.version + 1
    /\ CommitNow(<<root>>, latest_li, "none").retry
    /\ CommitNow(<<root>>, latest_li, "none").result.kind = "Ok"

\* C3 as stated: for every block P in the tree, the root included, whose
\* output has reconfiguration, a block executed with P as parent has no
\* transactions to commit, runs no VM and carries P's next_epoch_state.
C3_Original ==
    \A id \in AllIds \ DOMAIN blocks, p \in DOMAIN blocks,
       txns \in TxnLists, f \in ExecFaults :
    \A o \in {ExecNow(id, txns, p, f)} :
        has_reconfiguration(blocks[p].output) =>
            /\ o.result.kind = "Ok" /\ ~o.vm
            /\ o.blocks[id].output.to_commit = <<>>
            /\ o.blocks[id].output.nes = blocks[p].output.nes

\* C3, amended: the same for every block P other than the root; and every
\* speculative block whose parent is such a P is a reconfig suffix of it.
C3_ReconfigSuffix ==
    /\ \A id \in AllIds \ DOMAIN blocks, p \in Speculative,
          txns \in TxnLists, f \in ExecFaults :
       \A o \in {ExecNow(id, txns, p, f)} :
           has_reconfiguration(blocks[p].output) =>
               /\ o.result.kind = "Ok" /\ ~o.vm
               /\ o.blocks[id].output.to_commit = <<>>
               /\ o.blocks[id].output.nes = blocks[p].output.nes
    /\ \A b \in Speculative :
           (/\ blocks[b].parent_id \in Speculative
            /\ has_reconfiguration(blocks[blocks[b].parent_id].output)) =>
               /\ blocks[b].output.to_commit = <<>>
               /\ blocks[b].output.nes = blocks[blocks[b].parent_id].output.nes

\* A block has been attached under a speculative block that has reconfiguration.
C3_Witness ==
    \E b \in Speculative :
        /\ blocks[b].parent_id \in Speculative
        /\ has_reconfiguration(blocks[blocks[b].parent_id].output)
        /\ blocks[b].output = reconfig_suffix(blocks[blocks[b].parent_id].output)

\* C4 as stated: after every commit_blocks(ids, li) that returns success the
\* persisted transaction count is greater than before and equals li.version + 1.
C4_Original ==
    \A ids \in IdLists, li \in LedgerInfos, f \in CommitFaults :
    \A o \in {CommitNow(ids, li, f)} :
        (o.result.kind = "Ok" /\ ~o.aborted) =>
            /\ Len(o.log) > Len(log)
            /\ Len(o.log) = li.version + 1

\* C4, amended: that holds of every successful commit_blocks that is not a
\* retry; a retry (the root already at li.version + 1) leaves the log as it was.
C4_VersionMonotonic ==
    \A ids \in IdLists, li \in LedgerInfos, f \in CommitFaults :
    \A o \in {CommitNow(ids, li, f)} :
        (o.result.kind = "Ok" /\ ~o.aborted) =>
            IF AtTip(li) THEN o.log = log
            ELSE /\ Len(o.log) > Len(log)
                 /\ Len(o.log) = li.version + 1

\* A commit that was not a retry has persisted up to version 1 or beyond.
C4_Witness ==
    /\ ~aborted /\ latest_li.present /\ latest_li.version >= 1
    /\ Len(log) = latest_li.version + 1
    /\ blocks[root].num_persisted = Len(log)

\* C5: a commit_blocks that is not a retry, whose listed blocks are all in the
\* tree and whose count is off (first_version + to-commit # li.version + 1,
\* first_version the leaves of the root's accumulator) returns
\* BadNumTxnsToCommit{first_version, to_commit, target_version = li.version},
\* calls no save_transactions and changes neither the tree nor storage.
C5_BadNumTxns ==
    \A ids \in IdLists, li \in LedgerInfos, f \in CommitFaults :
    \A o \in {CommitNow(ids, li, f)} :
        (/\ ~AtTip(li) /\ AllPresent(ids)
         /\ Len(blocks[root].output.acc) + NumToCommit(ids, 1) # li.version + 1) =>
            /\ o.result = BadNumTxnsToCommit(Len(blocks[root].output.acc),
                                             NumToCommit(ids, 1), li.version)
            /\ ~o.saved /\ ~o.aborted
            /\ o.blocks = blocks /\ o.root = root
            /\ o.log = log /\ o.latest_li = latest_li

\* A block with transactions is in the tree and a commit of it to a version it
\* does not reach is refused.
C5_Witness ==
    \E id \in Speculative :
        /\ blocks[id].output.to_commit # <<>>
        /\ \E li \in LedgerInfos :
              CommitNow(<<id>>, li, "none").result.kind = "BadNumTxnsToCommit"

\* C6 as stated: after every commit_blocks(ids, li) that returns success the
\* root is li.consensus_block_id with num_persisted_transactions li.version + 1
\* and the block that was root is gone.
C6_Original ==
    \A ids \in IdLists, li \in LedgerInfos, f \in CommitFaults :
    \A o \in {CommitNow(ids, li, f)} :
        (o.result.kind = "Ok" /\ ~o.aborted) =>
            /\ o.root = li.consensus_block_id
            /\ o.blocks[o.root].num_persisted = li.version + 1
            /\ root \notin DOMAIN o.blocks

\* C6, amended: after every successful commit_blocks the root's
\* num_persisted_transactions is li.version + 1; when the call was not a retry
\* the root is li.consensus_block_id, and the previous root is gone unless
\* li.consensus_block_id names it.
C6_RootAfterCommit ==
    \A ids \in IdLists, li \in LedgerInfos, f \in CommitFaults :
    \A o \in {CommitNow(ids, li, f)} :
        (o.result.kind = "Ok" /\ ~o.aborted) =>
            /\ o.blocks[o.root].num_persisted = li.version + 1
            /\ ~AtTip(li) =>
                  /\ o.root = li.consensus_block_id
                  /\ (li.consensus_block_id # root => root \notin DOMAIN o.blocks)

\* A committed block has been promoted to root, alone in the tree.
C6_Witness ==
    /\ ~aborted /\ latest_li.present /\ root # ZeroHash
    /\ committed_block_id = latest_li.consensus_block_id
    /\ DOMAIN blocks = {root}
    /\ blocks[root].num_persisted = latest_li.version + 1
    /\ blocks[root].output.status # <<>>

C8_ParentResolution ==
    /\ \A id \in AllIds, p \in AllIds, txns \in TxnLists, f \in ExecFaults :
       \A o \in {ExecNow(id, txns, p, f)} :
           /\ p \notin DOMAIN blocks =>
                 /\ o.result = BlockNotFound(p)
                 /\ o.blocks = blocks /\ ~o.vm
           /\ o.blocks # blocks =>
                 /\ p \in DOMAIN blocks
                 /\ DOMAIN o.blocks = DOMAIN blocks \cup {id}
                 /\ o.blocks[id].parent_id = p
    /\ \A b \in Speculative : blocks[b].parent_id \in DOMAIN blocks

\* A block hangs under the root, and a call naming an absent parent is refused.
C8_Witness ==
    /\ Cardinality(DOMAIN blocks) = 2
    /\ \E p \in AllIds \ DOMAIN blocks :
          ExecNow(p, <<"a">>, p, "none").result = BlockNotFound(p)

\* C9: every execute_block call that returns an error leaves the tree as it
\* was (the root is not an output of the call).
C9_ErrorLeavesTree ==
    \A id \in AllIds, p \in AllIds, txns \in TxnLists, f \in ExecFaults :
    \A o \in {ExecNow(id, txns, p, f)} :
        o.result.kind # "Ok" => o.blocks = blocks

\* With a speculative block in the tree, a call that reaches the VM fails there.
C9_Witness ==
    /\ Speculative # {}
    /\ \E id \in AllIds \ DOMAIN blocks, p \in Speculative :
          /\ ExecNow(id, <<"a">>, p, "vm").result.kind = "VMError"
          /\ ExecNow(id, <<"a">>, p, "vm").vm

\* C10: commit_blocks changes the tree only in a call whose save_transactions
\* succeeded; a call that persisted and returned has moved the root to
\* li.consensus_block_id at li.version + 1, the persisted length; a prune that
\* fails after the persist aborts the process instead of returning.
C10_PruneAfterSave ==
    /\ \A ids \in IdLists, li \in LedgerInfos, f \in CommitFaults :
       \A o \in {CommitNow(ids, li, f)} :
           /\ (o.blocks # blocks \/ o.root # root) => (o.saved /\ ~o.aborted)
           /\ (o.log # log \/ o.latest_li # latest_li) => o.saved
           /\ (o.saved /\ ~o.aborted) =>
                 /\ o.result.kind = "Ok"
                 /\ o.root = li.consensus_block_id
                 /\ o.blocks[o.root].num_persisted = li.version + 1
                 /\ Len(o.log) = li.version + 1
           /\ (o.saved /\ li.consensus_block_id \notin DOMAIN blocks) => o.aborted
           /\ o.aborted => (o.saved /\ o.result.kind # "Ok")
    /\ aborted => Len(log) > blocks[root].num_persisted

\* The process has aborted: storage is ahead of the root.
C10_Witness ==
    /\ aborted
    /\ Len(log) > blocks[root].num_persisted
    /\ latest_li.consensus_block_id \notin DOMAIN blocks

\* The outcome of a bootstrapper call made on the database as it is.
GenerateNow(genesis_txn) == generate_waypoint(log, genesis_txn, "none")

BootstrapNow(genesis_txn, waypoint, fault) ==
    maybe_bootstrap(log, latest_li, genesis_txn, waypoint, fault)

BootUnchanged(o) == ~o.saved /\ o.log = log /\ o.latest_li = latest_li

\* C11: on every database, for every genesis transaction tx and waypoint wp,
\* maybe_bootstrap(db, tx, wp) returns true only if the persisted count
\* equals wp.version and the waypoint recomputed from (db, tx) equals wp, and
\* does return true then when the VM and the storage write do not fail; in
\* particular with wp = generate_waypoint(db, tx).
C11_WaypointRoundTrip ==
    \A tx \in GenesisTxns :
    \A g \in {GenerateNow(tx)} :
        /\ \A wp \in WaypointsFor(log), f \in BootFaults :
           \A o \in {BootstrapNow(tx, wp, f)} :
               /\ o.result = "Ok(true)" =>
                     (Len(log) = wp.version /\ g.ok /\ g.waypoint = wp /\ o.saved)
               /\ (f = "none" /\ Len(log) = wp.version /\ g.ok /\ g.waypoint = wp) =>
                     o.result = "Ok(true)"
        /\ g.ok => BootstrapNow(tx, g.waypoint, "none").result = "Ok(true)"

\* A non-empty database has been bootstrapped with a waypoint generated on it.
C11_Witness ==
    /\ NoExecutor /\ Len(log) = 2
    /\ latest_li = LedgerInfo(1, genesis_block_id)
    /\ EmitsReconfig(log[2])

\* C12: on an empty database, generate_waypoint followed by maybe_bootstrap
\* with that waypoint returns true; the persisted count is then 1, the latest
\* ledger info has version 0, and a BlockExecutor constructed on the database
\* has the zero hash as committed_block_id().
C12_GenesisOnEmptyDb ==
    /\ log = <<>> =>
          \A tx \in GenesisTxns :
          \A g \in {GenerateNow(tx)} :
              g.ok =>
                  \A o \in {BootstrapNow(tx, g.waypoint, "none")} :
                      /\ o.result = "Ok(true)"
                      /\ Len(o.log) = 1
                      /\ o.latest_li.present /\ o.latest_li.version = 0
                      /\ RootIdFromStorage(o.latest_li) = ZeroHash
                      /\ DOMAIN TreeFromStorage(o.log, o.latest_li) = {ZeroHash}
    /\ (~NoExecutor /\ DOMAIN blocks = {root} /\ blocks[root].output.to_commit = <<>>
          /\ latest_li = LedgerInfo(0, genesis_block_id)) =>
              committed_block_id = ZeroHash

\* An executor has been constructed on a database bootstrapped from empty.
C12_Witness ==
    /\ Len(log) = 1 /\ EmitsReconfig(log[1])
    /\ latest_li = LedgerInfo(0, genesis_block_id)
    /\ ~NoExecutor /\ DOMAIN blocks = {root}
    /\ committed_block_id = ZeroHash
    /\ blocks[root].num_persisted = 1

\* C13: maybe_bootstrap(db, tx, wp) returns Ok(false) whenever the persisted
\* count differs from wp.version, without executing the genesis transaction
\* and without writing to storage.
C13_SkipGenesis ==
    \A tx \in GenesisTxns, wp \in WaypointsFor(log), f \in BootFaults :
    \A o \in {BootstrapNow(tx, wp, f)} :
        Len(log) # wp.version =>
            (o.result = "Ok(false)" /\ ~o.executed /\ BootUnchanged(o))

\* A bootstrapped database is offered the waypoint it was bootstrapped with.
C13_Witness ==
    /\ NoExecutor /\ Len(log) = 1 /\ latest_li = LedgerInfo(0, genesis_block_id)
    /\ \E tx \in GenesisTxns, wp \in WaypointsFor(log) :
          /\ wp = generate_waypoint(<<>>, log[1], "none").waypoint
          /\ BootstrapNow(tx, wp, "none").result = "Ok(false)"

\* C14: when the persisted count equals wp.version and the waypoint
\* recomputed from the genesis transaction differs from wp, maybe_bootstrap
\* returns an error, not false, and storage is unchanged.
C14_WaypointMismatch ==
    \A tx \in GenesisTxns, wp \in WaypointsFor(log), f \in BootFaults :
    \A o \in {BootstrapNow(tx, wp, f)} :
        (Len(log) = wp.version /\ GenerateNow(tx).ok /\ GenerateNow(tx).waypoint # wp) =>
            /\ o.result \notin {"Ok(true)", "Ok(false)"}
            /\ f = "none" => o.result = "Err(WaypointMismatch)"
            /\ BootUnchanged(o)

\* A waypoint for this version but for another genesis transaction is refused.
C14_Witness ==
    /\ NoExecutor /\ log # <<>>
    /\ \E tx \in GenesisTxns, wp \in WaypointsFor(log) :
          /\ wp.version = Len(log)
          /\ GenerateNow(tx).ok
          /\ BootstrapNow(tx, wp, "none").result = "Err(WaypointMismatch)"

\* C15: genesis calculation fails, in generate_waypoint and in
\* maybe_bootstrap, whenever executing the genesis transaction yields nothing
\* to commit or no next_epoch_state: no waypoint is produced and nothing is
\* committed.
C15_GenesisMustReconfigure ==
    \A tx \in GenesisTxns, f \in BootFaults :
    \A out \in {apply_to_ledger(by_transaction_execution(<<tx>>), log)} :
        (out.to_commit = <<>> \/ out.nes = 0) =>
            /\ ~generate_waypoint(log, tx, f).ok
            /\ (out.to_commit = <<>> /\ f # "vm" /\ generate_waypoint(log, tx, f).executed) =>
                  generate_waypoint(log, tx, f).error = "GenesisFailed"
            /\ \A wp \in WaypointsFor(log) :
               \A o \in {BootstrapNow(tx, wp, f)} :
                   o.result # "Ok(true)" /\ BootUnchanged(o)

\* Both failures occur: a discarded genesis transaction, and one kept without
\* a reconfiguration event.
C15_Witness ==
    /\ NoExecutor
    /\ \E tx \in GenesisTxns : GenerateNow(tx).error = "GenesisFailed"
    /\ \E tx \in GenesisTxns : GenerateNow(tx).error = "NoReconfigEvent"

\* C16: the genesis ledger info carries epoch 0 on an empty ledger and the
\* on-chain epoch otherwise; on a non-empty ledger the calculation succeeds
\* only if the epoch of the post-genesis state is the prior epoch + 1, and the
\* timestamp is that of the post-genesis state; on an empty ledger the
\* timestamp is the genesis constant and an epoch that moves by another step
\* is accepted.
C16_GenesisEpochAndTime ==
    \A tx \in GenesisTxns :
    \A g \in {GenerateNow(tx)} :
        /\ g.ok =>
              /\ g.epoch = (IF log = <<>> THEN GENESIS_EPOCH ELSE get_state_epoch(log))
              /\ g.timestamp_usecs = (IF log = <<>> THEN GENESIS_TIMESTAMP_USECS
                                      ELSE get_state_timestamp(log \o <<tx>>))
              /\ log # <<>> => get_state_epoch(log \o <<tx>>) = get_state_epoch(log) + 1
        /\ (log # <<>> /\ get_state_epoch(log \o <<tx>>) # get_state_epoch(log) + 1) => ~g.ok
        /\ (log = <<>> /\ tx \in SkipEpochTxn) => g.ok

\* A ledger at epoch 1 or later: a genesis that moves the epoch by 1 is
\* accepted with the post-genesis timestamp, one that moves it by 2 is refused.
C16_Witness ==
    /\ NoExecutor /\ log # <<>> /\ get_state_epoch(log) >= 1
    /\ \E tx \in GenesisTxns :
          /\ GenerateNow(tx).ok
          /\ GenerateNow(tx).timestamp_usecs = Len(log) + 1
    /\ \E tx \in GenesisTxns : GenerateNow(tx).error = "EpochNotBumped"

C18_AccumulatorContinuity ==
    /\ \A id \in AllIds \ DOMAIN blocks, p \in DOMAIN blocks,
          txns \in TxnLists, f \in ExecFaults :
       \A o \in {ExecNow(id, txns, p, f)} :
           o.result.kind = "Ok" =>
               IF o.vm
               THEN /\ o.blocks[id].output.acc =
                          blocks[p].output.acc \o o.blocks[id].output.to_commit
                    /\ Len(o.blocks[id].output.acc) =
                          Len(blocks[p].output.acc) + Len(o.blocks[id].output.to_commit)
                    /\ o.result.scr.first_version = Len(blocks[p].output.acc)
                    /\ o.result.scr.num_leaves =
                          Len(blocks[p].output.acc) + Len(o.blocks[id].output.to_commit)
                    /\ o.result.scr.root_hash = o.blocks[id].output.acc
               ELSE o.blocks[id].output.acc = blocks[p].output.acc
    /\ \A b \in Speculative :
           blocks[b].output.acc =
               blocks[blocks[b].parent_id].output.acc \o blocks[b].output.to_commit

\* A block with transactions extends a parent whose accumulator is not empty.
C18_Witness ==
    \E b \in Speculative :
        /\ blocks[b].output.to_commit # <<>>
        /\ blocks[blocks[b].parent_id].output.acc # <<>>
        /\ Len(blocks[b].output.acc) = MaxVersion

\* C19: in every state reached by execute_block, commit_blocks and reset calls
\* in which the process has not aborted, the root's
\* num_persisted_transactions is the number of persisted transactions.
C19_RootMatchesStorage ==
    ~aborted => blocks[root].num_persisted = Len(log)

\* Blocks have been committed up to the bound and the root follows storage.
C19_Witness ==
    /\ ~aborted /\ root # ZeroHash
    /\ Len(log) = MaxVersion
    /\ blocks[root].num_persisted = MaxVersion
    /\ blocks[root].output.acc = log

C21_TreeShape ==
    /\ root \in DOMAIN blocks
    /\ \A b \in Speculative :
          /\ blocks[b].parent_id \in DOMAIN blocks
          /\ blocks[b].parent_id # b
          /\ root \in PathFrom(b, NumBlocks + 1)
    /\ \A id \in AllIds, p \in AllIds, txns \in TxnLists, f \in ExecFaults :
       \A o \in {ExecNow(id, txns, p, f)} :
          /\ DOMAIN o.blocks \subseteq DOMAIN blocks \cup {id}
          /\ \A b \in DOMAIN blocks : o.blocks[b] = blocks[b]

\* After a commit the new root carries a chain of two blocks.
C21_Witness ==
    /\ root # ZeroHash /\ latest_li.present
    /\ \E b \in Speculative, c \in Speculative :
          blocks[b].parent_id = root /\ blocks[c].parent_id = b

\* C22: every step that changes the persisted log is one save_transactions
\* that starts at the persisted length the previous one left (first_version,
\* the leaves of the root's accumulator, equals that length) and appends after
\* it: no gap, no overlap, the earlier transactions untouched.
C22_SaveOrder ==
    [][log' # log =>
          /\ Len(blocks[root].output.acc) = Len(log)
          /\ Len(log') > Len(log)
          /\ SubSeq(log', 1, Len(log)) = log
          /\ \A ids \in IdLists, li \in LedgerInfos :
             \A o \in {CommitNow(ids, li, "none")} :
                (o.saved /\ o.log = log') =>
                    SubSeq(log', Len(log) + 1, Len(log')) = Flatten(blocks, ids, 1)]_vars

\* Two blocks have been committed one after the other.
C22_Witness ==
    /\ ~aborted /\ Len(log) = 2 /\ log[1] \in ReconfigTxn
    /\ root # ZeroHash
    /\ blocks[root].output.to_commit = <<log[2]>>
    /\ blocks[root].output.acc = log

\* C23: in a block executed by the VM, a transaction is marked Retry exactly
\* when it comes after the first transaction that emits a reconfiguration
\* event, the transactions to commit are those up to and including that one,
\* and next_epoch_state is present iff some transaction emitted the event.
C23_RetryAfterReconfig ==
    \A id \in AllIds \ DOMAIN blocks, p \in DOMAIN blocks,
       txns \in TxnLists, f \in ExecFaults :
    \A o \in {ExecNow(id, txns, p, f)} :
        (o.result.kind = "Ok" /\ o.vm) =>
            \A out \in {o.blocks[id].output} :
                /\ Len(out.status) = Len(txns)
                /\ \A i \in 1..Len(txns) :
                      (out.status[i] = "Retry") <=>
                          (\E j \in 1..(i - 1) : EmitsReconfig(txns[j]))
                /\ out.to_commit = SubSeq(txns, 1, Len(out.to_commit))
                /\ Len(out.to_commit) =
                      Cardinality({i \in 1..Len(txns) : out.status[i] # "Retry"})
                /\ has_reconfiguration(out) <=>
                      (\E i \in 1..Len(txns) : EmitsReconfig(txns[i]))
                /\ o.result.scr.status = out.status

\* A block whose first transaction reconfigured and whose second was put off.
C23_Witness ==
    \E b \in Speculative :
        /\ blocks[b].output.status = <<"Keep", "Retry">>
        /\ Len(blocks[b].output.to_commit) = 1
        /\ has_reconfiguration(blocks[b].output)

\* C25 as stated: whenever block_id is already in the tree, execute_block
\* returns the cached result as a retry and not BlockNotFound, whatever
\* parent_id is, a parent that is not in the tree included.
C25_Original ==
    \A id \in DOMAIN blocks, p \in AllIds, txns \in TxnLists, f \in ExecFaults :
    \A o \in {ExecNow(id, txns, p, f)} :
        /\ o.retry
        /\ o.result.kind = "Ok"

\* C25, amended: the parent is resolved first.  When block_id and parent_id are
\* both in the tree the call returns the cached result, computed against that
\* parent's accumulator, without executing and without changing the tree; when
\* parent_id is not in the tree the call fails with BlockNotFound(parent_id)
\* even though block_id is in the tree.
C25_RetryAfterParent ==
    \A id \in DOMAIN blocks, p \in AllIds, txns \in TxnLists, f \in ExecFaults :
    \A o \in {ExecNow(id, txns, p, f)} :
        /\ o.blocks = blocks /\ ~o.vm
        /\ p \notin DOMAIN blocks =>
              /\ o.result = BlockNotFound(p)
              /\ ~o.retry
        /\ p \in DOMAIN blocks =>
              /\ o.retry
              /\ o.result.kind = "Ok"
              /\ o.result.scr.root_hash = blocks[id].output.acc
              /\ o.result.scr.status = blocks[id].output.status
              /\ o.result.scr.first_version = Len(blocks[p].output.acc)

\* A block executed with transactions is in the tree; the call is repeated once
\* with its parent and once with a parent that is not in the tree.
C25_Witness ==
    \E id \in Speculative, q \in AllIds \ DOMAIN blocks :
        /\ blocks[id].output.to_commit # <<>>
        /\ ExecNow(id, <<"a">>, blocks[id].parent_id, "none").retry
        /\ ExecNow(id, <<"a">>, q, "none").result = BlockNotFound(q)

\* C26: a block that is not yet in the tree, executed on a parent in the tree,
\* takes the reconfig-suffix shortcut (no VM, no fail point, an empty output on
\* the parent's accumulator) exactly when the parent is not the root and its
\* output has reconfiguration; otherwise, a root with reconfiguration included,
\* the call passes the fail point and the VM executes the transactions.
C26_ShortcutExactly ==
    \A id \in AllIds \ DOMAIN blocks, p \in DOMAIN blocks,
       txns \in TxnLists, f \in ExecFaults :
    \A o \in {ExecNow(id, txns, p, f)} :
        /\ (p # root /\ has_reconfiguration(blocks[p].output)) =>
              /\ ~o.vm /\ o.result.kind = "Ok"
              /\ o.blocks[id].output.status = <<>>
              /\ o.blocks[id].output.to_commit = <<>>
              /\ o.blocks[id].output.acc = blocks[p].output.acc
        /\ (p = root \/ ~has_reconfiguration(blocks[p].output)) =>
              /\ f = "inject" => (o.result = Err("Injected") /\ ~o.vm)
              /\ f = "vm" => (o.result = Err("VMError") /\ o.vm)
              /\ f = "apply" => (o.result = Err("ApplyError") /\ o.vm)
              /\ f = "none" =>
                    /\ o.vm /\ o.result.kind = "Ok"
                    /\ Len(o.blocks[id].output.status) = Len(txns)
                    /\ txns # <<>> =>
                          /\ o.blocks[id].output.to_commit # <<>>
                          /\ o.blocks[id].output.to_commit[1] = txns[1]
                    /\ o.blocks[id].output.acc =
                          blocks[p].output.acc \o o.blocks[id].output.to_commit

\* The root's output has reconfiguration and a block executed on it was run by
\* the VM: it has transactions to commit.
C26_Witness ==
    /\ has_reconfiguration(blocks[root].output)
    /\ \E b \in Speculative :
          /\ blocks[b].parent_id = root
          /\ blocks[b].output.to_commit # <<>>
          /\ blocks[b].output.status # <<>>

\* C27: a commit_blocks call is a retry exactly when the root's
\* num_persisted_transactions is li.version + 1.  Then it returns success,
\* calls no save_transactions and changes neither storage nor the tree,
\* whatever ids are listed and whatever block li names, ids that are not in the
\* tree included; otherwise it is not a retry, li naming the root included, and
\* succeeds only by persisting.
C27_RetryByVersionOnly ==
    \A ids \in IdLists, li \in LedgerInfos, f \in CommitFaults :
    \A o \in {CommitNow(ids, li, f)} :
        /\ AtTip(li) =>
              /\ o.retry /\ o.result = Ok(NoSCR)
              /\ ~o.saved /\ ~o.aborted
              /\ o.blocks = blocks /\ o.root = root
              /\ o.log = log /\ o.latest_li = latest_li
        /\ ~AtTip(li) =>
              /\ ~o.retry
              /\ o.result.kind = "Ok" => o.saved

\* After a commit: a call listing a block that is not in the tree, at the
\* root's version, is a retry; a call naming the root at another version is not.
C27_Witness ==
    /\ root # ZeroHash /\ latest_li.present /\ ~aborted
    /\ \E x \in AllIds \ DOMAIN blocks :
          /\ AtTip(LedgerInfo(latest_li.version, x))
          /\ CommitNow(<<x>>, LedgerInfo(latest_li.version, x), "none").retry
    /\ \E v \in 0..(MaxVersion - 1) :
          /\ ~AtTip(LedgerInfo(v, root))
          /\ ~CommitNow(<<>>, LedgerInfo(v, root), "none").retry

\* C28: a commit_blocks(block_ids, li) that succeeds and is not a retry has
\* called save_transactions, once; every listed block is in the tree; the call
\* started at first_version = the leaves of the root's accumulator = the
\* persisted length; the log afterwards is the previous log followed by each
\* listed block's transactions to commit, block after block in the order of
\* block_ids; and the latest ledger info is li.
C28_OneSaveInOrder ==
    \A ids \in IdLists, li \in LedgerInfos, f \in CommitFaults :
    \A o \in {CommitNow(ids, li, f)} :
        (o.result.kind = "Ok" /\ ~o.retry) =>
            /\ o.saved /\ AllPresent(ids)
            /\ Len(blocks[root].output.acc) = Len(log)
            /\ o.latest_li = li
            /\ Len(o.log) = Len(log) + NumToCommit(ids, 1)
            /\ SubSeq(o.log, 1, Len(log)) = log
            /\ \A i \in 1..Len(ids) :
               \A off \in {Len(log) + NumToCommit(SubSeq(ids, 1, i - 1), 1)} :
                  SubSeq(o.log, off + 1,
                         off + Len(blocks[ids[i]].output.to_commit)) =
                      blocks[ids[i]].output.to_commit

\* Two blocks with different transactions, one on the other, can be committed
\* in one call.
C28_Witness ==
    \E a \in Speculative, b \in Speculative :
        /\ blocks[b].parent_id = a
        /\ blocks[a].output.to_commit # <<>>
        /\ blocks[b].output.to_commit # <<>>
        /\ blocks[a].output.to_commit # blocks[b].output.to_commit
        /\ \E li \in LedgerInfos :
              /\ CommitNow(<<a, b>>, li, "none").saved
              /\ CommitNow(<<a, b>>, li, "none").result.kind = "Ok"

\* C29: a commit_blocks that is not a retry fails before save_transactions
\* with BlockNotFound of the first listed id that is not in the tree, else with
\* BadNumTxnsToCommit when the count is off, else with the injected error when
\* the fail point is armed; each of these returns an error, has called no
\* save_transactions, has not aborted and leaves storage and the tree as they
\* were.
C29_FailBeforeSave ==
    \A ids \in IdLists, li \in LedgerInfos, f \in CommitFaults :
    \A o \in {CommitNow(ids, li, f)} :
        /\ ~AtTip(li) =>
              /\ ~AllPresent(ids) =>
                    /\ o.result.kind = "BlockNotFound"
                    /\ o.result.id \notin DOMAIN blocks
                    /\ \E i \in 1..Len(ids) :
                          /\ ids[i] = o.result.id
                          /\ \A j \in 1..(i - 1) : ids[j] \in DOMAIN blocks
              /\ (/\ AllPresent(ids)
                  /\ Len(blocks[root].output.acc) + NumToCommit(ids, 1) # li.version + 1) =>
                    o.result.kind = "BadNumTxnsToCommit"
              /\ (/\ AllPresent(ids)
                  /\ Len(blocks[root].output.acc) + NumToCommit(ids, 1) = li.version + 1
                  /\ f = "inject") =>
                    o.result = Err("Injected")
        /\ o.result.kind \in {"BlockNotFound", "BadNumTxnsToCommit", "Injected"} =>
              /\ ~o.saved /\ ~o.aborted /\ ~o.retry
              /\ o.blocks = blocks /\ o.root = root
              /\ o.log = log /\ o.latest_li = latest_li

\* With a block with transactions in the tree, each of the three failures
\* can be had.
C29_Witness ==
    \E b \in Speculative, x \in AllIds \ DOMAIN blocks, li \in LedgerInfos :
        /\ blocks[b].output.to_commit # <<>>
        /\ CommitNow(<<b, x>>, li, "none").result = BlockNotFound(x)
        /\ CommitNow(<<b>>, li, "inject").result = Err("Injected")
        /\ \E l2 \in LedgerInfos :
              CommitNow(<<b>>, l2, "none").result.kind = "BadNumTxnsToCommit"

\* C30: a commit_blocks whose save_transactions fails returns the storage
\* error, does not abort and leaves the tree as it was, root and speculative
\* blocks alike; the same call made again is not taken for a retry and, when
\* storage accepts the save this time, persists up to li.version + 1.
C30_SaveFailure ==
    \A ids \in IdLists, li \in LedgerInfos, f \in CommitFaults :
    \A o \in {CommitNow(ids, li, f)} :
        /\ (/\ f = "storage" /\ ~AtTip(li) /\ AllPresent(ids)
            /\ Len(blocks[root].output.acc) + NumToCommit(ids, 1) = li.version + 1) =>
              o.result = Err("StorageError")
        /\ o.result.kind = "StorageError" =>
              /\ ~o.aborted /\ ~o.saved
              /\ o.root = root /\ o.blocks = blocks
              /\ \A again \in {commit_blocks(o.blocks, o.root, o.log, o.latest_li,
                                             ids, li, "none")} :
                    /\ ~again.retry
                    /\ again.result.kind # "BlockNotFound"
                    /\ again.result.kind # "BadNumTxnsToCommit"
                    /\ Len(blocks[root].output.acc) = Len(o.log) =>
                          /\ again.saved
                          /\ Len(again.log) = li.version + 1
                          /\ again.latest_li = li

\* A block with transactions is in the tree; its commit fails in storage and
\* succeeds when made again.
C30_Witness ==
    \E b \in Speculative, li \in LedgerInfos :
        /\ blocks[b].output.to_commit # <<>>
        /\ li.consensus_block_id = b
        /\ CommitNow(<<b>>, li, "storage").result = Err("StorageError")
        /\ CommitNow(<<b>>, li, "none").result.kind = "Ok"
        /\ CommitNow(<<b>>, li, "none").saved

\* C24: state sync, mempool and consensus are started only after the bootstrap
\* step: with a genesis transaction configured, after maybe_bootstrap has
\* returned Ok; with none, after the step was skipped.  An error from
\* maybe_bootstrap aborts the start with none of the three started, and nothing
\* is started after an abort.  With no genesis transaction configured the step
\* changes nothing in storage, does not abort and goes on to the next stage.
C24_BootstrapBeforeStart ==
    /\ [](/\ node.started \cap {"state_sync", "mempool", "consensus"} # {} =>
                /\ ~aborted
                /\ node.genesis # NoGenesisTxn => node.boot \in {"Ok(true)", "Ok(false)"}
                /\ node.genesis = NoGenesisTxn => node.boot = "skipped"
          /\ node.boot \notin {"none", "skipped", "Ok(true)", "Ok(false)"} =>
                /\ aborted
                /\ node.pc = "panicked"
          /\ aborted => node.started \cap {"state_sync", "mempool", "consensus"} = {})
    /\ [][/\ aborted => node'.started = {}
          /\ node.pc = "bootstrap" =>
                /\ node.started \cap {"state_sync", "mempool", "consensus"} = {}
                /\ node.genesis = NoGenesisTxn =>
                      /\ node'.pc = "chain_id" /\ node'.boot = "skipped"
                      /\ ~aborted'
                      /\ UNCHANGED <<log, latest_li>>
                /\ node.genesis # NoGenesisTxn =>
                      \E fault \in BootFaults :
                      \E o \in {maybe_bootstrap(log, latest_li, node.genesis,
                                                node.waypoint, fault)} :
                          /\ node'.boot = o.result
                          /\ log' = o.log
                          /\ aborted' <=> o.result \notin {"Ok(true)", "Ok(false)"}]_vars

\* A validator configured with a genesis transaction is up: maybe_bootstrap
\* committed the genesis and state sync, mempool and consensus were started.
C24_Witness ==
    /\ node.pc = "up" /\ node.genesis # NoGenesisTxn
    /\ node.boot = "Ok(true)" /\ log # <<>>
    /\ {"state_sync", "mempool", "consensus"} \subseteq node.started

\* C31: the ledger info of every genesis calculation that succeeds has no
\* signatures, round GENESIS_ROUND, the zero hash as consensus block id and as
\* consensus data hash, the ledger's transaction count before genesis as
\* version, the prior epoch as epoch, the accumulator root and the
\* next_epoch_state of the executed genesis output; the waypoint returned is
\* that ledger info's version and accumulator root, so its version is the
\* transaction count before genesis.
C31_GenesisLedgerInfo ==
    \A tx \in GenesisTxns :
    \A g \in {GenerateNow(tx)} :
        g.ok =>
            /\ g.ledger_info.signatures = {}
            /\ g.ledger_info.round = GENESIS_ROUND
            /\ g.ledger_info.id = ZeroHash
            /\ g.ledger_info.consensus_data_hash = ZeroHash
            /\ g.ledger_info.version = Len(log)
            /\ g.ledger_info.epoch =
                  (IF log = <<>> THEN GENESIS_EPOCH ELSE get_state_epoch(log))
            /\ g.ledger_info.root_hash = log \o <<tx>>
            /\ g.ledger_info.root_hash = g.output.acc
            /\ g.ledger_info.nes = g.output.nes /\ g.ledger_info.nes # 0
            /\ g.waypoint.version = Len(log)
            /\ g.waypoint.value = g.output.acc

\* A genesis is calculated on a ledger that has transactions and an epoch.
C31_Witness ==
    /\ NoExecutor /\ log # <<>> /\ get_state_epoch(log) >= 1
    /\ \E tx \in GenesisTxns :
          /\ GenerateNow(tx).ok
          /\ GenerateNow(tx).ledger_info.version = Len(log)
          /\ GenerateNow(tx).ledger_info.epoch = get_state_epoch(log)

\* C32 as stated: the ledger info of every genesis calculation that succeeds
\* carries the constant genesis timestamp, on a non-empty ledger too.
C32_Original ==
    \A tx \in GenesisTxns :
    \A g \in {GenerateNow(tx)} :
        g.ok => g.ledger_info.timestamp_usecs = GENESIS_TIMESTAMP_USECS

\* C32, amended: the ledger info carries the constant genesis timestamp when
\* the ledger is empty, and the timestamp of the on-chain state after the
\* genesis transaction when the ledger is not empty.
C32_GenesisTimestamp ==
    \A tx \in GenesisTxns :
    \A g \in {GenerateNow(tx)} :
        g.ok =>
            /\ log = <<>> => g.ledger_info.timestamp_usecs = GENESIS_TIMESTAMP_USECS
            /\ log # <<>> =>
                  g.ledger_info.timestamp_usecs = get_state_timestamp(g.output.acc)

\* A genesis calculated on a non-empty ledger carries a timestamp that is not
\* the constant.
C32_Witness ==
    /\ NoExecutor /\ log # <<>>
    /\ \E tx \in GenesisTxns :
          /\ GenerateNow(tx).ok
          /\ GenerateNow(tx).ledger_info.timestamp_usecs # GENESIS_TIMESTAMP_USECS
          /\ GenerateNow(tx).ledger_info.timestamp_usecs =
                get_state_timestamp(log \o <<tx>>)

\* C35: a maybe_bootstrap call has called save_transactions exactly when it
\* returns true; after a call that returned true, every later call with the
\* same genesis transaction and waypoint, whatever fault is armed and however
\* the ledger has grown since, returns false without executing the genesis
\* transaction and leaves storage as it is; and the bootstrapper changes
\* storage in no other way than by a call that returns true.
C35_GenesisOnce ==
    /\ [](\A tx \in GenesisTxns, wp \in WaypointsFor(log), f \in BootFaults :
          \A o \in {BootstrapNow(tx, wp, f)} :
              /\ o.saved <=> o.result = "Ok(true)"
              /\ ~o.saved => (o.log = log /\ o.latest_li = latest_li)
              /\ o.result = "Ok(true)" =>
                    \A f2 \in BootFaults, grown \in TxnLists :
                    \A o2 \in {maybe_bootstrap(o.log \o grown, o.latest_li, tx, wp, f2)} :
                        /\ o2.result = "Ok(false)"
                        /\ ~o2.saved /\ ~o2.executed
                        /\ o2.log = o.log \o grown
                        /\ o2.latest_li = o.latest_li)
    /\ [][(NoExecutor /\ log' # log) =>
             \E tx \in GenesisTxns, wp \in WaypointsFor(log) :
             \E o \in {BootstrapNow(tx, wp, "none")} :
                 /\ o.result = "Ok(true)"
                 /\ log' = o.log
                 /\ Len(log') = wp.version + 1]_vars

\* Two geneses have been committed, each once: the call that committed the
\* second returns false when it is made again.
C35_Witness ==
    /\ NoExecutor /\ Len(log) = 2
    /\ latest_li = LedgerInfo(1, genesis_block_id)
    /\ \E wp \in {generate_waypoint(<<log[1]>>, log[2], "none").waypoint} :
          /\ maybe_bootstrap(<<log[1]>>, LedgerInfo(0, genesis_block_id),
                             log[2], wp, "none").result = "Ok(true)"
          /\ BootstrapNow(log[2], wp, "none").result = "Ok(false)"
          /\ BootstrapNow(log[2], wp, "none").log = log

\* C36: every genesis output calculate_genesis accepts has one transaction to
\* commit on top of the ledger as it was read, so the version of its result
\* accumulator, which GenesisCommitter::commit passes as first_version, is the
\* transaction count at the start of bootstrap and the waypoint's version;
\* storage accepts the save: a bootstrap given the calculated waypoint persists
\* unless a fault is armed, and no storage error arises without one.
C36_GenesisFirstVersion ==
    \A tx \in GenesisTxns :
    \A g \in {GenerateNow(tx)} :
        /\ g.ok =>
              /\ g.output.to_commit = <<tx>>
              /\ Len(g.output.acc) - 1 = Len(log)
              /\ g.waypoint.version = Len(log)
              /\ \A o \in {BootstrapNow(tx, g.waypoint, "none")} :
                    /\ o.saved /\ o.result = "Ok(true)"
                    /\ o.log = log \o g.output.to_commit
                    /\ o.latest_li.version = Len(log)
        /\ \A wp \in WaypointsFor(log), f \in BootFaults :
              BootstrapNow(tx, wp, f).result = "Err(StorageError)" => f = "storage"

\* A genesis has been saved at first_version 1, on a ledger of one transaction.
C36_Witness ==
    /\ NoExecutor /\ Len(log) = 2 /\ EmitsReconfig(log[2])
    /\ latest_li.version = 1
    /\ generate_waypoint(<<log[1]>>, log[2], "none").ok
    /\ Len(generate_waypoint(<<log[1]>>, log[2], "none").output.acc) - 1 = 1

\* C33: every run of the pipeline ends: the main thread has joined all three
\* threads.  Throughout, neither channel holds more than 3 blocks; the blocks
\* executed are the first ones generated, in generation order, each once, and
\* the blocks committed are the first ones executed, in that order; the
\* executor thread has stopped only with the generator's sender dropped and
\* its channel drained, the committer only with the executor thread finished
\* and its channel drained; at the end every generated block is committed.
C33_PipelineTerminates ==
    /\ <>(pipe.main = "done")
    /\ [](/\ Len(pipe.block_queue) <= 3 /\ Len(pipe.commit_queue) <= 3
          /\ pipe.executed = [i \in 1..Len(pipe.executed) |-> i]
          /\ Len(pipe.executed) <= pipe.generated
          /\ pipe.generated <= pipe.total
          /\ pipe.committed = SubSeq(pipe.executed, 1, Len(pipe.committed))
          /\ Len(pipe.committed) <= Len(pipe.executed)
          /\ pipe.exe = "done" =>
                /\ pipe.sender_dropped /\ pipe.block_queue = <<>>
                /\ Len(pipe.executed) = pipe.total
          /\ pipe.committer = "done" =>
                /\ pipe.exe = "done" /\ pipe.commit_queue = <<>>
          /\ pipe.main = "done" =>
                /\ pipe.exe = "done" /\ pipe.committer = "done"
                /\ Len(pipe.committed) = pipe.total)

\* Both channels are full, the executor waits to send and the generator has
\* more blocks than fit.
C33_Witness ==
    /\ Len(pipe.block_queue) = 3 /\ Len(pipe.commit_queue) = 3
    /\ pipe.exe = "send" /\ pipe.generated < pipe.total

\* C34: an execute_block call during which a commit_blocks ran returns the
\* result, and leaves the tree, of the call made entirely before that commit
\* or entirely after it; and the root it compared the parent against is the
\* root at the time it read the parent and at the time it attached the block.
C34_ExecuteAtomic ==
    (call.pc = "return" /\ ~aborted) =>
        /\ [result |-> call.result, blocks |-> blocks]
                \in {SerialBefore(call), SerialAfter(call)}
        /\ call.root_at_get = call.committed_id
        /\ call.root_at_attach = call.committed_id

====
